---------------------------- MODULE Spec2Model ----------------------------
(***************************************************************************)
(* The TikTok download route (src/src/app/api/download/tiktok/route.ts:    *)
(* the POST Resolver, the GET Relay and the OPTIONS preflight) and the     *)
(* page's download flow (src/src/app/page.tsx: handleDownload).            *)
(*                                                                         *)
(* A JavaScript string is a sequence of one-character strings, so that the *)
(* regular expression, encodeURIComponent, the filename sanitizer and the  *)
(* header template work on characters.  The fixed messages of the code and *)
(* the nickname, which the code only copies, stay TLA+ strings.  A JSON    *)
(* object is a function from its keys; a property that is undefined is a   *)
(* key that is not in the DOMAIN.                                          *)
(***************************************************************************)
EXTENDS Integers, Sequences, FiniteSets, TLC

VARIABLES
    pc,             \* pc[s]: where the handler of slot s is suspended
    req,            \* req[s]: the request slot s is handling
    response,       \* response[s]: the handler's local `response` (the settled fetch)
    answered,       \* answered[s]: what the upstream answered to slot s's calls (history)
    calls,          \* calls[s]: the targets slot s's handler passed to fetch (history)
    resp,           \* resp[s]: the HTTP response the handler returned
    tiktokUrl,      \* the page's state (useState)
    downloading,
    progress,
    downloadComplete,
    error,
    pagePc,         \* where handleDownload is suspended
    interval,       \* whether progressInterval is still scheduled
    proxy,          \* the query parameters of the Relay call of this handleDownload
    saved,          \* whether this handleDownload saved a blob (link.click)
    toast           \* the last toast of this handleDownload

serverVars == <<pc, req, response, answered, calls, resp>>
pageVars == <<tiktokUrl, downloading, progress, downloadComplete, error, pagePc,
              interval, proxy, saved, toast>>
vars == <<pc, req, response, answered, calls, resp, tiktokUrl, downloading, progress,
          downloadComplete, error, pagePc, interval, proxy, saved, toast>>

\* The number of requests the server handles at the same time.
MaxInFlight == 2

\* The largest media body, in bytes.
MaxBytes == 12

Slots == 1..MaxInFlight

-----------------------------------------------------------------------------
(* Characters and strings *)

IsPrefix(p, u) == Len(p) <= Len(u) /\ SubSeq(u, 1, Len(p)) = p

Contains(u, c) == \E i \in 1..Len(u) : u[i] = c

Http == <<"h","t","t","p",":","/","/">>
Https == <<"h","t","t","p","s",":","/","/">>
Www == <<"w","w","w",".">>
TiktokCom == <<"t","i","k","t","o","k",".","c","o","m">>
VmTiktokCom == <<"v","m",".">> \o TiktokCom

\* A UTF-16 code unit that is half of a surrogate pair, standing alone.
LoneSurrogate == "<D800>"

\* The characters the regular expression's `.` does not match.
LineTerminators == {"\n", "\r"}

\* Whether the literal lit stands in u at position p.
MatchLit(u, p, lit) ==
    /\ p + Len(lit) - 1 <= Len(u)
    /\ SubSeq(u, p, p + Len(lit) - 1) = lit

\* The positions after the optional group (https?:\/\/)? matched at the start (^).
AfterScheme(u) ==
    {1} \cup {1 + Len(lit) : lit \in {l \in {Http, Https} : MatchLit(u, 1, l)}}

\* ... then after the optional group (www\.)?
AfterWww(u) ==
    AfterScheme(u) \cup {p + Len(Www) : p \in {q \in AfterScheme(u) : MatchLit(u, q, Www)}}

\* ... then after the alternation (tiktok\.com|vm\.tiktok\.com)
AfterHost(u) ==
    UNION {{p + Len(h) : h \in {g \in {TiktokCom, VmTiktokCom} : MatchLit(u, p, g)}}
           : p \in AfterWww(u)}

\* The same expression with the dots of the host left unescaped
\* (tiktok.com|vm.tiktok.com), where "." matches any character.
TiktokRegexUnescapedDot(u) ==
    \E p \in AfterWww(u) :
        \E h \in {TiktokCom, VmTiktokCom} :
            /\ p + Len(h) + 1 <= Len(u)
            /\ \A i \in 1..Len(h) :
                  \/ h[i] = "." /\ u[p + i - 1] \notin LineTerminators
                  \/ u[p + i - 1] = h[i]
            /\ u[p + Len(h)] = "/"
            /\ u[p + Len(h) + 1] \notin LineTerminators

\* tiktokRegex.test(url):  /^(https?:\/\/)?(www\.)?(tiktok\.com|vm\.tiktok\.com)\/.+/
\* After the host come a "/" and one character that is no line terminator
\* (the rest of .+ is greedy and may be anything or nothing).
TiktokRegexTest(u) ==
    \E p \in AfterHost(u) :
        /\ MatchLit(u, p, <<"/">>)
        /\ p + 1 <= Len(u)
        /\ u[p + 1] \notin LineTerminators

\* The characters of the model's alphabet that encodeURIComponent escapes,
\* with their UTF-8 percent codes; every other character of the alphabet is
\* unreserved (a letter, a digit or one of - _ . ! ~ * ' ( )).
PercentCode ==
    [c \in {":", "/", "@", "?", "=", "\n", "\r", "\"", " "} |->
        CASE c = ":"  -> <<"%","3","A">>
          [] c = "/"  -> <<"%","2","F">>
          [] c = "@"  -> <<"%","4","0">>
          [] c = "?"  -> <<"%","3","F">>
          [] c = "="  -> <<"%","3","D">>
          [] c = "\n" -> <<"%","0","A">>
          [] c = "\r" -> <<"%","0","D">>
          [] c = "\"" -> <<"%","2","2">>
          [] c = " "  -> <<"%","2","0">>]

\* encodeURIComponent throws a URIError on a lone surrogate.
EncodeThrows(u) == Contains(u, LoneSurrogate)

RECURSIVE EncodeURIComponent(_)
EncodeURIComponent(u) ==
    IF u = <<>> THEN <<>>
    ELSE (IF Head(u) \in DOMAIN PercentCode THEN PercentCode[Head(u)] ELSE <<Head(u)>>)
         \o EncodeURIComponent(Tail(u))

\* "https://www.tikwm.com/api/?url="
TikwmApi ==
    Https \o Www \o <<"t","i","k","w","m",".","c","o","m","/","a","p","i","/","?","u","r","l","=">>

\* The Resolver fetching the page link itself instead of the metadata endpoint.
TikwmUrlDirect(url) == url

\* const tikwmUrl = `https://www.tikwm.com/api/?url=${encodeURIComponent(url)}`
TikwmUrl(url) == TikwmApi \o EncodeURIComponent(url)


-----------------------------------------------------------------------------
(* JSON objects and HTTP responses *)

Has(obj, k) == k \in DOMAIN obj

\* The object obj without the keys in ks.
Without(obj, ks) == [k \in DOMAIN obj \ ks |-> obj[k]]

NoResp == [status |-> 0, kind |-> "none"]

\* NextResponse.json(obj, { status })
JsonResponse(obj, status) == [status |-> status, kind |-> "json", json |-> obj]

\* The catch block of POST: the exception's message goes into details.
POSTCaught(message) ==
    JsonResponse([error |-> "Erro ao processar o vídeo", details |-> message], 500)

\* The catch block of GET.
GETCaught(message) ==
    JsonResponse([error |-> "Erro ao baixar o vídeo", details |-> message], 500)

UpstreamFailureError ==
    "Erro ao obter informações do vídeo do TikTok. Verifique se o link está correto."

\* 'TikTok Video'
DefaultTitle == <<"T","i","k","T","o","k"," ","V","i","d","e","o">>

\* 'tiktok_video.mp4'
DefaultFilename ==
    <<"t","i","k","t","o","k","_","v","i","d","e","o",".","m","p","4">>

-----------------------------------------------------------------------------
(* The Resolver: POST *)

\* POST from its entry to its first fetch: the body is read (request.json()),
\* url is taken out of it and validated, and the upstream URL is built.
\* What throws lands in the catch block.
POSTBody(body) ==
    IF body.kind = "malformed"
    THEN [done |-> TRUE, resp |-> POSTCaught("SyntaxError: request body is not JSON")]
    ELSE IF body.kind = "null"
    THEN [done |-> TRUE, resp |-> POSTCaught("TypeError: cannot destructure url of null")]
    ELSE IF ~Has(body.obj, "url") \/ body.obj.url = <<>>
    THEN [done |-> TRUE, resp |-> JsonResponse([error |-> "URL é obrigatória"], 400)]
    ELSE IF ~TiktokRegexTest(body.obj.url)
    THEN [done |-> TRUE, resp |-> JsonResponse([error |-> "URL inválida do TikTok"], 400)]
    ELSE IF EncodeThrows(body.obj.url)
    THEN [done |-> TRUE, resp |-> POSTCaught("URIError: URI malformed")]
    ELSE [done |-> FALSE, fetch |-> TikwmUrl(body.obj.url)]

\* The data of the success response with title copied as it is.
ResolvedDataNoDefault(data) ==
    LET keys == {"title"}
                \cup (IF Has(data, "cover") THEN {"thumbnail"} ELSE {})
                \cup (IF Has(data.author, "nickname") THEN {"author"} ELSE {})
                \cup (IF Has(data, "title") THEN {"description"} ELSE {})
                \cup (IF Has(data, "play") THEN {"downloadUrl"} ELSE {})
                \cup (IF Has(data, "wmplay") THEN {"noWatermarkUrl"} ELSE {})
    IN  [k \in keys |->
            CASE k = "title" -> IF Has(data, "title") THEN data.title ELSE DefaultTitle
              [] k = "thumbnail" -> data.cover
              [] k = "author" -> data.author.nickname
              [] k = "description" -> data.title
              [] k = "downloadUrl" -> data.play
              [] k = "noWatermarkUrl" -> data.wmplay]

\* responseData.data as NextResponse.json serializes it: a property whose value
\* is undefined is left out.  data.author is an object here (see POSTParsed).
ResolvedData(data) ==
    LET keys == {"title"}
                \cup (IF Has(data, "cover") THEN {"thumbnail"} ELSE {})
                \cup (IF Has(data.author, "nickname") THEN {"author"} ELSE {})
                \cup (IF Has(data, "title") THEN {"description"} ELSE {})
                \cup (IF Has(data, "play") THEN {"downloadUrl"} ELSE {})
                \cup (IF Has(data, "wmplay") THEN {"noWatermarkUrl"} ELSE {})
    IN  [k \in keys |->
            CASE k = "title" ->
                    IF Has(data, "title") /\ data.title # <<>>
                    THEN data.title ELSE DefaultTitle
              [] k = "thumbnail" -> data.cover
              [] k = "author" -> data.author.nickname
              [] k = "description" -> data.title
              [] k = "downloadUrl" -> data.play
              [] k = "noWatermarkUrl" -> data.wmplay]

\* POST resumed with the settled fetch a: a rejected fetch is caught, otherwise
\* the handler goes on to await response.json().
POSTFetched(a) ==
    IF a.kind = "reject"
    THEN [done |-> TRUE, resp |-> POSTCaught("TypeError: fetch failed")]
    ELSE [done |-> FALSE]

\* POST resumed with the body b of the upstream response rsp:
\*   !response.ok || tikwmData.code !== 0 || !tikwmData.data   (|| short-circuits)
POSTParsed(rsp, b) ==
    IF b.parse = "bad"
    THEN POSTCaught("SyntaxError: upstream body is not JSON")
    ELSE IF ~rsp.ok
    THEN JsonResponse([error |-> UpstreamFailureError], 500)
    ELSE IF b.parse = "null"
    THEN POSTCaught("TypeError: cannot read code of null")
    ELSE IF ~Has(b.env, "code") \/ b.env.code # 0 \/ ~Has(b.env, "data")
    THEN JsonResponse([error |-> UpstreamFailureError], 500)
    ELSE IF ~Has(b.env.data, "author")
    THEN POSTCaught("TypeError: cannot read nickname of undefined")
    ELSE JsonResponse([success |-> TRUE,
                       message |-> "Vídeo obtido com sucesso",
                       data |-> ResolvedData(b.env.data)], 200)

-----------------------------------------------------------------------------
(* The Relay: GET *)

\* searchParams.get('filename') || 'tiktok_video.mp4'
Filename(params) ==
    IF Has(params, "filename") /\ params.filename # <<>>
    THEN params.filename ELSE DefaultFilename

\* The Relay without the test of its url parameter: it fetches what it got.
GETParamsNoCheck(params) ==
    [done |-> FALSE, fetch |-> IF Has(params, "url") THEN params.url ELSE <<>>]

\* GET from its entry to its fetch.
GETParams(params) ==
    IF ~Has(params, "url") \/ params.url = <<>>
    THEN [done |-> TRUE, resp |-> JsonResponse([error |-> "URL do vídeo é obrigatória"], 400)]
    ELSE [done |-> FALSE, fetch |-> params.url]

\* GET resumed with the settled fetch a.
GETFetched(a) ==
    IF a.kind = "reject"
    THEN [done |-> TRUE, resp |-> GETCaught("TypeError: fetch failed")]
    ELSE IF ~a.ok
    THEN [done |-> TRUE,
          resp |-> JsonResponse([error |-> "Falha ao baixar o vídeo do servidor do TikTok"], 500)]
    ELSE [done |-> FALSE]

Digit == <<"0","1","2","3","4","5","6","7","8","9">>

\* Number.prototype.toString() of a natural number: its decimal digits.
RECURSIVE NumberToString(_)
NumberToString(n) ==
    IF n < 10 THEN <<Digit[n + 1]>>
    ELSE NumberToString(n \div 10) \o <<Digit[(n % 10) + 1]>>

\* `attachment; filename="${filename}"`
ContentDisposition(filename) ==
    <<"a","t","t","a","c","h","m","e","n","t",";"," ",
      "f","i","l","e","n","a","m","e","=","\"">> \o filename \o <<"\"">>

\* The Headers constructor rejects a value with a line break or a code unit
\* above 255 (a TypeError).
InvalidHeaderValue(v) ==
    \E i \in 1..Len(v) : v[i] \in LineTerminators \cup {LoneSurrogate}

\* GET resumed with the read body b (response.arrayBuffer()).
GETRead(params, b) ==
    IF b.kind = "reject"
    THEN GETCaught("TypeError: terminated")
    ELSE IF InvalidHeaderValue(ContentDisposition(Filename(params)))
    THEN GETCaught("TypeError: invalid header value")
    ELSE [status |-> 200, kind |-> "binary", bytes |-> b.bytes,
          headers |-> [ContentType |-> "video/mp4",
                       ContentDisposition |-> ContentDisposition(Filename(params)),
                       ContentLength |-> NumberToString(b.bytes),
                       CacheControl |-> "public, max-age=3600"]]

-----------------------------------------------------------------------------
(* The preflight: OPTIONS *)

OPTIONSResponse ==
    [status |-> 200, kind |-> "empty",
     headers |-> [AccessControlAllowOrigin |-> "*",
                  AccessControlAllowMethods |-> "POST, GET, OPTIONS",
                  AccessControlAllowHeaders |-> "Content-Type"]]


-----------------------------------------------------------------------------
(* The requests and the upstream answers the model draws from *)

\* "https://www.tiktok.com/@d"
UrlFull == Https \o Www \o TiktokCom \o <<"/","@","d">>
\* "vm.tiktok.com/x"
UrlShort == VmTiktokCom \o <<"/","x">>
\* "not-a-url"
UrlNotAUrl == <<"n","o","t","-","a","-","u","r","l">>
\* "tiktok.com/": nothing after the slash
UrlNoPath == TiktokCom \o <<"/">>
\* "tiktok.com/\n": only a line break after the slash
UrlLineBreak == TiktokCom \o <<"/","\n">>
\* "https://tiktok.com": no slash after the host
UrlNoSlash == Https \o TiktokCom
\* "xtiktok.com/a": the host does not start the string
UrlInside == <<"x">> \o TiktokCom \o <<"/","a">>
\* "tiktokXcom/a": another character where the host has its dot
UrlNoDot == <<"t","i","k","t","o","k","X","c","o","m","/","a">>
\* "tiktok.com/" and a lone surrogate
UrlSurrogate == TiktokCom \o <<"/", LoneSurrogate>>

TestUrls ==
    {<<>>, UrlFull, UrlShort, UrlNotAUrl, UrlNoPath, UrlLineBreak, UrlNoSlash,
     UrlInside, UrlNoDot, UrlSurrogate}

\* The bodies of a POST: no or broken JSON, the JSON null, {} and {url}.
PostBodies ==
    {[kind |-> "malformed"], [kind |-> "null"], [kind |-> "object", obj |-> <<>>]}
    \cup {[kind |-> "object", obj |-> [url |-> u]] : u \in TestUrls}

\* "Funny Cat"
FunnyCat == <<"F","u","n","n","y"," ","C","a","t">>
\* "http://x/thumb.jpg"
CoverUrl == Http \o <<"x","/","t","h","u","m","b",".","j","p","g">>
\* "http://x/wm.mp4"
PlayUrl == Http \o <<"x","/","w","m",".","m","p","4">>
\* "http://x/nowm.mp4"
WmplayUrl == Http \o <<"x","/","n","o","w","m",".","m","p","4">>

DataFull ==
    [id |-> "123", title |-> FunnyCat, cover |-> CoverUrl,
     author |-> [nickname |-> "DemoUser", unique_id |-> "demo"],
     play |-> PlayUrl, wmplay |-> WmplayUrl, music |-> "http://x/m.mp3"]

DataKeys == DOMAIN DataFull

UpstreamDatas ==
    {DataFull,
     [DataFull EXCEPT !.title = <<>>],
     Without(DataFull, {"author"}),
     Without(DataFull, {"play"})}

\* The envelopes {code, msg, data?} of the metadata service.
Envelopes ==
    {[code |-> 0, msg |-> "success", data |-> d] : d \in UpstreamDatas}
    \cup {[code |-> 0, msg |-> "success"], [code |-> -1, msg |-> "Url parsing is failed!"]}

\* What response.json() of the metadata response gives: a SyntaxError, null or
\* an envelope.
MetadataBodies ==
    {[parse |-> "bad"], [parse |-> "null"]}
    \cup {[parse |-> "obj", env |-> e] : e \in Envelopes}

\* What a fetch settles with: a rejection or a response with its ok flag.
FetchResults ==
    {[kind |-> "reject"]} \cup {[kind |-> "response", ok |-> o] : o \in BOOLEAN}

MediaSizes == {0, 1, MaxBytes}

\* What response.arrayBuffer() of the media response gives.
MediaReads ==
    {[kind |-> "reject"]} \cup {[kind |-> "read", bytes |-> n] : n \in MediaSizes}

\* "a.mp4"
PlainFilename == <<"a",".","m","p","4">>
\* a"b.mp4
QuoteFilename == <<"a","\"","b",".","m","p","4">>
\* "a", a line break, "b"
LineBreakFilename == <<"a","\n","b">>

\* The query parameters of a GET.
GetParams ==
    {<<>>,
     [filename |-> PlainFilename],
     [url |-> PlayUrl],
     [url |-> PlayUrl, filename |-> PlainFilename],
     [url |-> PlayUrl, filename |-> QuoteFilename],
     [url |-> PlayUrl, filename |-> LineBreakFilename],
     [url |-> TikwmApi \o EncodeURIComponent(UrlFull)]}

NoResponse == [kind |-> "none"]

-----------------------------------------------------------------------------
(* The server: each slot handles one request *)

\* The `response` of another handler: the variable shared by all requests.
SharedResponse(s) ==
    LET set == {t \in Slots : response[t] # NoResponse}
    IN  response[CHOOSE t \in set : \A o \in set : t <= o]

\* const response = await fetch(...): a local of the handler's own call.
LocalResponse(s) == response[s]

Finish(s, r) ==
    /\ pc' = [pc EXCEPT ![s] = "done"]
    /\ resp' = [resp EXCEPT ![s] = r]

\* The handler calls fetch(target) and is suspended.
CallFetch(s, target) ==
    /\ pc' = [pc EXCEPT ![s] = "fetch"]
    /\ calls' = [calls EXCEPT ![s] = Append(@, target)]
    /\ UNCHANGED resp

Post(s, body) ==
    /\ pc[s] = "idle"
    /\ req' = [req EXCEPT ![s] = [method |-> "POST", body |-> body]]
    /\ LET r == POSTBody(body)
       IN  IF r.done THEN Finish(s, r.resp) /\ UNCHANGED calls
           ELSE CallFetch(s, r.fetch)
    /\ UNCHANGED <<response, answered>>
    /\ UNCHANGED pageVars

PostFetched(s, a) ==
    /\ pc[s] = "fetch"
    /\ req[s].method = "POST"
    /\ answered' = [answered EXCEPT ![s] = Append(@, a)]
    /\ LET r == POSTFetched(a)
       IN  IF r.done THEN Finish(s, r.resp) /\ UNCHANGED response
           ELSE /\ response' = [response EXCEPT ![s] = a]
                /\ pc' = [pc EXCEPT ![s] = "body"]
                /\ UNCHANGED resp
    /\ UNCHANGED <<req, calls>>
    /\ UNCHANGED pageVars

PostParsed(s, b) ==
    /\ pc[s] = "body"
    /\ req[s].method = "POST"
    /\ answered' = [answered EXCEPT ![s] = Append(@, b)]
    /\ Finish(s, POSTParsed(LocalResponse(s), b))
    /\ UNCHANGED <<req, response, calls>>
    /\ UNCHANGED pageVars

Get(s, params) ==
    /\ pc[s] = "idle"
    /\ req' = [req EXCEPT ![s] = [method |-> "GET", params |-> params]]
    /\ LET r == GETParams(params)
       IN  IF r.done THEN Finish(s, r.resp) /\ UNCHANGED calls
           ELSE CallFetch(s, r.fetch)
    /\ UNCHANGED <<response, answered>>
    /\ UNCHANGED pageVars

GetFetched(s, a) ==
    /\ pc[s] = "fetch"
    /\ req[s].method = "GET"
    /\ answered' = [answered EXCEPT ![s] = Append(@, a)]
    /\ LET r == GETFetched(a)
       IN  IF r.done THEN Finish(s, r.resp) /\ UNCHANGED response
           ELSE /\ response' = [response EXCEPT ![s] = a]
                /\ pc' = [pc EXCEPT ![s] = "body"]
                /\ UNCHANGED resp
    /\ UNCHANGED <<req, calls>>
    /\ UNCHANGED pageVars

GetRead(s, b) ==
    /\ pc[s] = "body"
    /\ req[s].method = "GET"
    /\ answered' = [answered EXCEPT ![s] = Append(@, b)]
    /\ Finish(s, GETRead(req[s].params, b))
    /\ UNCHANGED <<req, response, calls>>
    /\ UNCHANGED pageVars

Options(s) ==
    /\ pc[s] = "idle"
    /\ req' = [req EXCEPT ![s] = [method |-> "OPTIONS"]]
    /\ Finish(s, OPTIONSResponse)
    /\ UNCHANGED <<response, answered, calls>>
    /\ UNCHANGED pageVars

NoProxy == [sent |-> FALSE]

PageInit ==
    /\ tiktokUrl = <<>>
    /\ downloading = FALSE
    /\ progress = 0
    /\ downloadComplete = FALSE
    /\ error = "null"
    /\ pagePc = "idle"
    /\ interval = FALSE
    /\ proxy = NoProxy
    /\ saved = FALSE
    /\ toast = "none"

Init ==
    /\ pc = [s \in Slots |-> "idle"]
    /\ req = [s \in Slots |-> [method |-> "none"]]
    /\ response = [s \in Slots |-> NoResponse]
    /\ answered = [s \in Slots |-> <<>>]
    /\ calls = [s \in Slots |-> <<>>]
    /\ resp = [s \in Slots |-> NoResp]
    /\ PageInit

Next ==
    \E s \in Slots :
        \/ \E body \in PostBodies : Post(s, body)
        \/ \E a \in FetchResults : PostFetched(s, a)
        \/ \E b \in MetadataBodies : PostParsed(s, b)
        \/ \E params \in GetParams : Get(s, params)
        \/ \E a \in FetchResults : GetFetched(s, a)
        \/ \E b \in MediaReads : GetRead(s, b)
        \/ Options(s)

Spec == Init /\ [][Next]_vars

-----------------------------------------------------------------------------
(* Properties of the server *)

\* The TikTok link pattern as the specification words it: an optional scheme,
\* an optional "www.", the host tiktok.com or vm.tiktok.com, then "/" and at
\* least one more character.
MatchesTikTokPattern(u) ==
    \E scheme \in {<<>>, Http, Https} :
        \E w \in {<<>>, Www} :
            \E h \in {TiktokCom, VmTiktokCom} :
                /\ IsPrefix(scheme \o w \o h \o <<"/">>, u)
                /\ Len(u) > Len(scheme \o w \o h \o <<"/">>)

IsPost(s) == req[s].method = "POST"
IsGet(s) == req[s].method = "GET"

\* Slot s handles a POST whose body is an object with no, an empty or a
\* non-matching url.
BadUrlPost(s) ==
    /\ IsPost(s)
    /\ req[s].body.kind = "object"
    /\ \/ ~Has(req[s].body.obj, "url")
       \/ req[s].body.obj.url = <<>>
       \/ ~MatchesTikTokPattern(req[s].body.obj.url)

\* C1: a POST whose url is empty or does not match the TikTok pattern is
\* answered 400, and its handler calls fetch at no point.
C1_InvalidUrlRejectedWithoutCall ==
    \A s \in Slots :
        BadUrlPost(s) => calls[s] = <<>> /\ pc[s] = "done" /\ resp[s].status = 400

C1_Witness ==
    \E s \in Slots :
        /\ BadUrlPost(s)
        /\ req[s].body.obj = [url |-> UrlNoDot]
        /\ pc[s] = "done"

\* Slot s is a finished POST whose fetch settled with a response and whose
\* body was read.
PostAnswered(s) ==
    /\ IsPost(s)
    /\ pc[s] = "done"
    /\ Len(answered[s]) = 2

\* The upstream answer to slot s is a successful response with an envelope of
\* code 0 that has data.
UpstreamSuccess(s) ==
    /\ PostAnswered(s)
    /\ answered[s][1].ok
    /\ answered[s][2].parse = "obj"
    /\ Has(answered[s][2].env, "code")
    /\ answered[s][2].env.code = 0
    /\ Has(answered[s][2].env, "data")

\* The upstream answer to slot s is an unsuccessful response, or an envelope
\* with a code other than 0 or without data.
UpstreamFailed(s) ==
    /\ PostAnswered(s)
    /\ \/ ~answered[s][1].ok
       \/ /\ answered[s][2].parse = "obj"
          /\ \/ ~Has(answered[s][2].env, "code")
             \/ answered[s][2].env.code # 0
             \/ ~Has(answered[s][2].env, "data")

\* C2: an unsuccessful transport response, a code other than 0 or absent data
\* each give status 500 with the upstream-failure error and no data field.
C2_UpstreamFailureReported ==
    \A s \in Slots :
        UpstreamFailed(s) =>
            /\ resp[s].status = 500
            /\ resp[s].json.error = UpstreamFailureError
            /\ ~Has(resp[s].json, "data")

FullyPopulated(d) == DOMAIN d = DataKeys /\ Has(d.author, "nickname")

\* C3: code 0 with fully populated data gives 200, success and the data mapped
\* cover->thumbnail, title->title and description, author.nickname->author,
\* play->downloadUrl, wmplay->noWatermarkUrl, with the default title in place
\* of an empty one.
C3_SuccessMapsFields ==
    \A s \in Slots :
        (UpstreamSuccess(s) /\ FullyPopulated(answered[s][2].env.data)) =>
            LET d == answered[s][2].env.data
            IN  /\ resp[s].status = 200
                /\ resp[s].json.success = TRUE
                /\ resp[s].json.data =
                       [title |-> IF d.title = <<>> THEN DefaultTitle ELSE d.title,
                        thumbnail |-> d.cover,
                        author |-> d.author.nickname,
                        description |-> d.title,
                        downloadUrl |-> d.play,
                        noWatermarkUrl |-> d.wmplay]

C3_Witness ==
    \E s \in Slots :
        /\ UpstreamSuccess(s)
        /\ FullyPopulated(answered[s][2].env.data)
        /\ answered[s][2].env.data.title = <<>>
        /\ resp[s].json.data.title = DefaultTitle

\* C4: code 0 with data that has no author object still gives 200 and success,
\* with no author in the returned data.
C4_AbsentAuthorTolerated ==
    \A s \in Slots :
        (UpstreamSuccess(s) /\ ~Has(answered[s][2].env.data, "author")) =>
            /\ resp[s].status = 200
            /\ resp[s].json.success = TRUE
            /\ ~Has(resp[s].json.data, "author")

\* Slot s is a finished GET whose media URL answered successfully with a body
\* that was read.
RelayRead(s) ==
    /\ IsGet(s)
    /\ pc[s] = "done"
    /\ Len(answered[s]) = 2
    /\ answered[s][2].kind = "read"

DigitValue(c) == CHOOSE n \in 0..9 : Digit[n + 1] = c

\* The number a string of decimal digits denotes.
RECURSIVE DecimalValue(_)
DecimalValue(str) ==
    IF str = <<>> THEN 0
    ELSE 10 * DecimalValue(SubSeq(str, 1, Len(str) - 1)) + DigitValue(str[Len(str)])

IsDecimal(str) == str # <<>> /\ \A i \in 1..Len(str) : \E n \in 1..10 : Digit[n] = str[i]

\* The characters a filename may hold without breaking the quoted header value.
SafeFilenameChars ==
    {"a","b","c","d","e","i","k","m","o","p","t","v","F","u","n","y","C","T","V",
     "0","1","2","3","4","_","."}

\* attachment; filename="
DispositionPrefix == SubSeq(ContentDisposition(<<>>), 1, Len(ContentDisposition(<<>>)) - 1)

\* C5: the Relay's answer to N read bytes has Content-Type video/mp4,
\* Content-Length N and Content-Disposition attachment; filename="<name>",
\* where <name> has no double quote, is the requested filename when that is
\* already clean, and is tiktok_video.mp4 when no filename was given.
C5_RelayHeaders ==
    \A s \in Slots :
        RelayRead(s) =>
            /\ resp[s].status = 200
            /\ resp[s].kind = "binary"
            /\ resp[s].headers.ContentType = "video/mp4"
            /\ IsDecimal(resp[s].headers.ContentLength)
            /\ DecimalValue(resp[s].headers.ContentLength) = answered[s][2].bytes
            /\ LET h == resp[s].headers.ContentDisposition
                   name == SubSeq(h, Len(DispositionPrefix) + 1, Len(h) - 1)
                   p == req[s].params
               IN  /\ IsPrefix(DispositionPrefix, h)
                   /\ h[Len(h)] = "\""
                   /\ ~Contains(name, "\"")
                   /\ ~Has(p, "filename") => name = DefaultFilename
                   /\ (Has(p, "filename")
                       /\ \A i \in 1..Len(p.filename) : p.filename[i] \in SafeFilenameChars)
                      => name = p.filename

\* C6: a GET without the url parameter is answered 400 and never calls fetch.
C6_MissingUrlRejectedWithoutFetch ==
    \A s \in Slots :
        (IsGet(s) /\ ~Has(req[s].params, "url")) =>
            calls[s] = <<>> /\ pc[s] = "done" /\ resp[s].status = 400

C6_Witness ==
    \E s \in Slots :
        /\ IsGet(s)
        /\ req[s].params = [filename |-> PlainFilename]
        /\ pc[s] = "done"
        /\ resp[s].json = [error |-> "URL do vídeo é obrigatória"]

\* The input of slot s's request is invalid or missing.
InvalidInput(s) ==
    \/ IsPost(s) /\ req[s].body.kind # "object"
    \/ BadUrlPost(s)
    \/ IsGet(s) /\ (~Has(req[s].params, "url") \/ req[s].params.url = <<>>)

\* C7: every finished request has one response; its status is 400 when the
\* input is invalid or missing (a POST with a missing or malformed body
\* included), and 500 or 200 otherwise; every response that is not 200 is a
\* JSON object with an error.
C7_StatusByOutcome ==
    \A s \in Slots :
        pc[s] = "done" =>
            /\ resp[s].status \in {200, 400, 500}
            /\ InvalidInput(s) => resp[s].status = 400
            /\ resp[s].status # 200 => resp[s].kind = "json" /\ Has(resp[s].json, "error")

IsMetadataEndpoint(target) == IsPrefix(TikwmApi, target)

MediaUrls == {d.play : d \in {e \in UpstreamDatas : Has(e, "play")}}
             \cup {d.wmplay : d \in {e \in UpstreamDatas : Has(e, "wmplay")}}

\* C8 (as claimed): a request makes at most one call; a POST calls only the
\* metadata endpoint, a GET only the URL it was given and never the metadata
\* endpoint, an OPTIONS nothing.
C8_OneCallEachToItsOwnHost ==
    \A s \in Slots :
        /\ Len(calls[s]) <= 1
        /\ \A i \in 1..Len(calls[s]) :
              /\ IsPost(s) => IsMetadataEndpoint(calls[s][i]) /\ calls[s][i] \notin MediaUrls
              /\ IsGet(s) => calls[s][i] = req[s].params.url
                             /\ ~IsMetadataEndpoint(calls[s][i])
        /\ req[s].method = "OPTIONS" => calls[s] = <<>>

\* C8 (amended): a request makes at most one call; a POST calls only the
\* metadata endpoint and never a media URL, a GET calls only the URL given in
\* its url parameter, whatever that URL is, an OPTIONS nothing.
C8_OneCallPostToMetadataGetToGivenUrl ==
    \A s \in Slots :
        /\ Len(calls[s]) <= 1
        /\ \A i \in 1..Len(calls[s]) :
              /\ IsPost(s) => IsMetadataEndpoint(calls[s][i]) /\ calls[s][i] \notin MediaUrls
              /\ IsGet(s) => calls[s][i] = req[s].params.url
        /\ req[s].method = "OPTIONS" => calls[s] = <<>>

C8_Witness ==
    \E s, t \in Slots :
        /\ IsPost(s) /\ pc[s] = "done" /\ Len(calls[s]) = 1
        /\ Len(answered[s]) = 2 /\ ~answered[s][1].ok
        /\ IsGet(t) /\ pc[t] = "done" /\ Len(calls[t]) = 1
        /\ Len(answered[t]) = 1 /\ answered[t][1].kind = "response"

\* The response to request r handled alone, with ans the upstream's answers to
\* its own calls.
HandledAlone(r, ans) ==
    CASE r.method = "OPTIONS" -> OPTIONSResponse
      [] r.method = "POST" ->
            IF POSTBody(r.body).done THEN POSTBody(r.body).resp
            ELSE IF POSTFetched(ans[1]).done THEN POSTFetched(ans[1]).resp
            ELSE POSTParsed(ans[1], ans[2])
      [] r.method = "GET" ->
            IF GETParams(r.params).done THEN GETParams(r.params).resp
            ELSE IF GETFetched(ans[1]).done THEN GETFetched(ans[1]).resp
            ELSE GETRead(r.params, ans[2])

\* C9: whatever the other slots do in between, a finished request's response
\* is the one it gets when handled alone: a function of its own input and of
\* the upstream's answers to its own calls; and every step of a handler leaves
\* the state of all other requests as it is.
C9_ResponseAsIfAlone ==
    /\ [](\A s \in Slots :
            pc[s] = "done" => resp[s] = HandledAlone(req[s], answered[s]))
    /\ [][\E s \in Slots : \A t \in Slots \ {s} :
            /\ pc'[t] = pc[t] /\ req'[t] = req[t] /\ response'[t] = response[t]
            /\ answered'[t] = answered[t] /\ calls'[t] = calls[t]
            /\ resp'[t] = resp[t]]_vars

C9_Witness ==
    \E s, t \in Slots :
        /\ UpstreamSuccess(s) /\ resp[s].status = 200
        /\ IsPost(t) /\ pc[t] = "body" /\ ~response[t].ok

-----------------------------------------------------------------------------
(* The page: handleDownload *)

Whitespace == {" ", "\t", "\n", "\r"}

\* String.prototype.trim()
RECURSIVE Trim(_)
Trim(u) ==
    IF u = <<>> THEN u
    ELSE IF Head(u) \in Whitespace THEN Trim(Tail(u))
    ELSE IF u[Len(u)] \in Whitespace THEN Trim(SubSeq(u, 1, Len(u) - 1))
    ELSE u

\* validateUrl(url): the error it sets, "null" when the url is valid.
ValidateUrl(url) ==
    IF Trim(url) = <<>> THEN "Por favor, insira um link válido"
    ELSE IF ~TiktokRegexTest(url) THEN "Link inválido do TikTok"
    ELSE "null"

Alphanumeric ==
    {"a","b","c","d","e","f","g","h","i","j","k","l","m",
     "n","o","p","q","r","s","t","u","v","w","x","y","z",
     "A","B","C","D","E","F","G","H","I","J","K","L","M",
     "N","O","P","Q","R","S","T","U","V","W","X","Y","Z",
     "0","1","2","3","4","5","6","7","8","9"}

\* filename.replace(/[^a-z0-9]/gi, '_')
Sanitize(name) ==
    [i \in 1..Len(name) |-> IF name[i] \in Alphanumeric THEN name[i] ELSE "_"]

\* ".mp4"
Mp4 == <<".","m","p","4">>

\* What searchParams.get gives for a value written with encodeURIComponent:
\* every percent code is turned back into its character.
RECURSIVE DecodeQueryValue(_)
DecodeQueryValue(v) ==
    IF v = <<>> THEN <<>>
    ELSE IF Head(v) = "%" /\ Len(v) >= 3
    THEN <<CHOOSE c \in DOMAIN PercentCode : PercentCode[c] = SubSeq(v, 1, 3)>>
         \o DecodeQueryValue(SubSeq(v, 4, Len(v)))
    ELSE <<Head(v)>> \o DecodeQueryValue(Tail(v))

\* The query parameters the Relay reads from
\*   `/api/download/tiktok?url=${encodeURIComponent(downloadUrl)}&filename=${sanitizedFilename}.mp4`
\* with filename = data.data.title || 'TikTok_Video'.
ProxyParams(data) ==
    LET filename == IF Has(data, "title") /\ data.title # <<>> THEN data.title
                    ELSE <<"T","i","k","T","o","k","_","V","i","d","e","o">>
    IN  [url |-> DecodeQueryValue(EncodeURIComponent(data.downloadUrl)),
         filename |-> Sanitize(filename) \o Mp4]

\* The responses the Resolver can give to the page's POST of {url}.
ResolverResponses(url) ==
    {HandledAlone([method |-> "POST", body |-> [kind |-> "object", obj |-> [url |-> url]]],
                  <<a, b>>) : a \in FetchResults, b \in MetadataBodies}

\* The responses the Relay can give to the page's GET.
RelayResponses(params) ==
    {HandledAlone([method |-> "GET", params |-> params], <<a, b>>)
        : a \in FetchResults, b \in MediaReads}

\* response.ok
Ok(r) == r.status >= 200 /\ r.status <= 299

\* data.data?.downloadUrl is truthy
HasDownloadUrl(json) ==
    /\ Has(json, "data")
    /\ Has(json.data, "downloadUrl")
    /\ json.data.downloadUrl # <<>>

PageUrls == {<<>>, <<" ">>, UrlNotAUrl, UrlFull, UrlSurrogate}

\* The end of the try block, then finally.
Succeed ==
    /\ interval' = FALSE
    /\ progress' = 100
    /\ downloadComplete' = TRUE
    /\ toast' = "success"
    /\ downloading' = FALSE
    /\ pagePc' = "idle"
    /\ UNCHANGED error

\* The catch block, then finally.
Fail(message) ==
    /\ interval' = FALSE
    /\ error' = message
    /\ toast' = "error"
    /\ downloading' = FALSE
    /\ pagePc' = "idle"
    /\ UNCHANGED <<progress, downloadComplete>>

\* handleTiktokUrlChange(value); the input is disabled while downloading.
UrlChange(value) ==
    /\ ~downloading
    /\ tiktokUrl' = value
    /\ downloadComplete' = FALSE
    /\ error' = "null"
    /\ progress' = 0
    /\ UNCHANGED <<downloading, pagePc, interval, proxy, saved, toast>>
    /\ UNCHANGED serverVars

\* handleDownload(tiktokUrl) up to its POST; the button is disabled while
\* downloading.
HandleDownload ==
    /\ ~downloading
    /\ pagePc = "idle"
    /\ IF ValidateUrl(tiktokUrl) # "null"
       THEN /\ error' = ValidateUrl(tiktokUrl)
            /\ UNCHANGED <<downloading, progress, downloadComplete, pagePc, interval,
                           proxy, saved, toast>>
       ELSE /\ downloading' = TRUE
            /\ progress' = 0
            /\ downloadComplete' = FALSE
            /\ error' = "null"
            /\ interval' = TRUE
            /\ pagePc' = "resolver"
            /\ proxy' = NoProxy
            /\ saved' = FALSE
            /\ toast' = "none"
    /\ UNCHANGED tiktokUrl
    /\ UNCHANGED serverVars

\* The callback of setInterval(..., 500).
ProgressTick ==
    /\ interval
    /\ IF progress >= 90
       THEN interval' = FALSE /\ progress' = 90
       ELSE interval' = TRUE /\ progress' = progress + 10
    /\ UNCHANGED <<tiktokUrl, downloading, downloadComplete, error, pagePc, proxy,
                   saved, toast>>
    /\ UNCHANGED serverVars

\* The POST fails in the network.
ResolverUnreachable ==
    /\ pagePc = "resolver"
    /\ Fail("Failed to fetch")
    /\ UNCHANGED <<tiktokUrl, proxy, saved>>
    /\ UNCHANGED serverVars

\* The POST returns r and its JSON is read.
ResolverReturns(r) ==
    /\ pagePc = "resolver"
    /\ IF ~Ok(r)
       THEN /\ Fail(IF Has(r.json, "error") /\ r.json.error # ""
                    THEN r.json.error ELSE "Erro ao processar o vídeo")
            /\ UNCHANGED proxy
       ELSE IF HasDownloadUrl(r.json)
       THEN /\ proxy' = [sent |-> TRUE, params |-> ProxyParams(r.json.data)]
            /\ pagePc' = "relay"
            /\ UNCHANGED <<downloading, progress, downloadComplete, error, interval, toast>>
       ELSE Succeed /\ UNCHANGED proxy
    /\ UNCHANGED <<tiktokUrl, saved>>
    /\ UNCHANGED serverVars

\* The GET of the proxy URL fails in the network.
RelayUnreachable ==
    /\ pagePc = "relay"
    /\ Fail("Failed to fetch")
    /\ UNCHANGED <<tiktokUrl, proxy, saved>>
    /\ UNCHANGED serverVars

\* The GET of the proxy URL returns v.
RelayReturns(v) ==
    /\ pagePc = "relay"
    /\ IF ~Ok(v)
       THEN Fail("Erro ao baixar o vídeo do servidor")
       ELSE /\ pagePc' = "blob"
            /\ UNCHANGED <<downloading, progress, downloadComplete, error, interval, toast>>
    /\ UNCHANGED <<tiktokUrl, proxy, saved>>
    /\ UNCHANGED serverVars

\* videoResponse.blob() settles: the blob is saved through a link, or the read
\* fails.
BlobRead(read) ==
    /\ pagePc = "blob"
    /\ IF read THEN Succeed /\ saved' = TRUE
       ELSE Fail("Failed to fetch") /\ UNCHANGED saved
    /\ UNCHANGED <<tiktokUrl, proxy>>
    /\ UNCHANGED serverVars

NextPage ==
    \/ \E value \in PageUrls : UrlChange(value)
    \/ HandleDownload
    \/ ProgressTick
    \/ ResolverUnreachable
    \/ \E r \in ResolverResponses(tiktokUrl) : ResolverReturns(r)
    \/ RelayUnreachable
    \/ proxy.sent /\ \E v \in RelayResponses(proxy.params) : RelayReturns(v)
    \/ \E read \in BOOLEAN : BlobRead(read)

SpecPage == Init /\ [][NextPage]_vars

\* C10: the success state (downloadComplete, the success toast) is reached
\* only after the Relay call of the same handleDownload succeeded and its
\* bytes were saved; downloading is false whenever handleDownload is not
\* running.
C10_SuccessOnlyAfterSave ==
    /\ (downloadComplete \/ toast = "success") => (proxy.sent /\ saved)
    /\ pagePc = "idle" => ~downloading

=============================================================================
